---- MODULE Spec2Model ----
(***************************************************************************)
(* State-machine model of src/main.py (nlcd-county): main() iterates a     *)
(* year range, opens the yearly NLCD raster, masks it to the county        *)
(* polygon returned by get_extent(), recolors it through the raster's      *)
(* colormap, collects the frames and hands them to imageio.mimsave.        *)
(***************************************************************************)
EXTENDS Integers, Sequences, FiniteSets, TLC

VARIABLES
    start, stop, step, state, county,  \* arguments of main()
    pc,          \* position of the single thread inside main()
    it,          \* next value of the range(start, stop, step) iterator
    year,        \* loop variable
    images,      \* list of frames collected so far
    status,      \* state of the st.status container
    error,       \* kind of the exception that left main(), "none" otherwise
    handles,     \* raster datasets currently open
    src,         \* dataset opened by main() for the current year
    extent,      \* value returned by get_extent(state, county)
    mask,        \* boolean grid returned by raster_geometry_mask
    raw,         \* band 1 as read from the source window
    data,        \* band 1 after data[mask] = src.nodata
    rgb_image,   \* frame under construction
    gif,         \* what imageio.mimsave wrote
    baseCrs,     \* CRS of the 1985 file, fixed once it has been opened
    clipYears,   \* history: years for which raster_geometry_mask was invoked
    frameYears   \* history: year of each frame appended to images

vars == <<start, stop, step, state, county, pc, it, year, images, status,
          error, handles, src, extent, mask, raw, data, rgb_image, gif,
          baseCrs, clipYears, frameYears>>

(* ---------------------------------------------------------------- bounds *)
MaxYears == 2
MaxStep == 2
MaxCode == 2

(* ------------------------------------------------------------- constants *)
MinYear == 1985
MaxYearUI == 2023
MaxStepUI == 10
BaseYear == 1985
FPS == 4
LOOP == 0
Channels == 4

Years == MinYear..(MinYear + MaxYears)
Steps == (-1)..MaxStep
Codes == 0..MaxCode

(* ------------------------------------------------- external collaborators *)
\* Coordinate reference systems and the length of one unit of the base
\* coordinates expressed in each of them.
CRSs == {"EPSG:4326", "EPSG:5070"}
Units == [c \in CRSs |-> IF c = "EPSG:4326" THEN 1 ELSE 2]

\* The boundary collection: one county matched once, one matched twice.
USA ==
    << [NAME_1 |-> "Texas", NAME_2 |-> "Travis",
        geometry |-> [id |-> 1, crs |-> "EPSG:4326", w |-> 2, h |-> 1]],
       [NAME_1 |-> "Texas", NAME_2 |-> "Orange",
        geometry |-> [id |-> 2, crs |-> "EPSG:4326", w |-> 2, h |-> 1]],
       [NAME_1 |-> "Texas", NAME_2 |-> "Orange",
        geometry |-> [id |-> 3, crs |-> "EPSG:4326", w |-> 1, h |-> 1]] >>

States == {"Texas"}
Counties == {"Travis", "Orange", "Nowhere"}

\* Pixel sizes a yearly raster may have, in units of its CRS.
Resolutions == {2, 4}
\* Values src.nodata may hold; "None" is a raster declaring no sentinel.
NoDatas == {0, MaxCode}

Color(c) == <<(40 * c + 10) % 256, 100, 255 - c, 255>>
\* Colour tables a raster may carry: class code -> (r, g, b, a).
Colormaps == { [c \in 1..MaxCode |-> Color(c)], [c \in {0, 1} |-> Color(c)] }

(* ----------------------------------------------------------------- grids *)
Cells(shape) == (1..shape[1]) \X (1..shape[2])
NoGrid == [shape |-> <<0, 0>>, v |-> <<>>]
NoSrc == [year |-> 0, crs |-> "none", nodata |-> -1, colormap |-> <<>>]
NoExtent == [kind |-> "none", items |-> <<>>]
NoGif == [written |-> FALSE, frames |-> <<>>, fps |-> 0, loop |-> 0]

CeilDiv(a, b) == (a + b - 1) \div b

(* ------------------------------------------------------------ get_extent *)
\* USA.query(f'NAME_1 == "{state}" and NAME_2 == "{county}"')
Query(st, co) == SelectSeq(USA, LAMBDA r : r.NAME_1 = st /\ r.NAME_2 = co)

\* Reprojection of one geometry: coordinates are rescaled to the target CRS.
Reproject(g, crs) ==
    [g EXCEPT !.crs = crs,
              !.w = (g.w * Units[crs]) \div Units[g.crs],
              !.h = (g.h * Units[crs]) \div Units[g.crs]]

\* .to_crs(src.profile['crs']).geometry
ToCrs(rows, crs) == [i \in DOMAIN rows |-> Reproject(rows[i].geometry, crs)]

\* .squeeze(): a one-element series collapses to its element, any other
\* series (empty or longer) is returned as it is.
Squeeze(series) ==
    IF Len(series) = 1
    THEN [kind |-> "scalar", items |-> series]
    ELSE [kind |-> "series", items |-> series]

get_extent(st, co, crs) == Squeeze(ToCrs(Query(st, co), crs))

(* -------------------------------------------------------------- clipping *)
\* Pixel window of a geometry on a raster of pixel size res: the geometry's
\* coordinates are read as coordinates of the raster, whatever its CRS tag.
Window(g, res) == <<CeilDiv(g.h, res), CeilDiv(g.w, res)>>

\* Mutant: the mask is applied inverted (data[~mask] = src.nodata).
MaskOutInverted(d, m, nodata) ==
    [shape |-> d.shape,
     v |-> [c \in DOMAIN d.v |-> IF ~m.v[c] THEN nodata % 256 ELSE d.v[c]]]

\* data[mask] = src.nodata on a uint8 band
MaskOut(d, m, nodata) ==
    [shape |-> d.shape,
     v |-> [c \in DOMAIN d.v |-> IF m.v[c] THEN nodata % 256 ELSE d.v[c]]]

(* ------------------------------------------------------------- recolouring *)
Zero4 == [i \in 1..Channels |-> 0]
\* np.zeros((*data.shape, 4), dtype=np.uint8)
Zeros(shape) == [shape |-> shape, v |-> [c \in Cells(shape) |-> Zero4]]

\* rgb[:4], stored as uint8
Take4(rgb) ==
    [i \in 1..(IF Len(rgb) < 4 THEN Len(rgb) ELSE 4) |-> rgb[i] % 256]

\* Mutant: the comparison selects every class code up to cls.
PaintUpTo(img, d, cls, rgb) ==
    [img EXCEPT !.v = [c \in DOMAIN img.v |->
                          IF d.v[c] <= cls THEN Take4(rgb) ELSE img.v[c]]]

\* rgb_image[data == cls] = rgb[:4]
Paint(img, d, cls, rgb) ==
    [img EXCEPT !.v = [c \in DOMAIN img.v |->
                          IF d.v[c] = cls THEN Take4(rgb) ELSE img.v[c]]]

\* Keys of the colour table in the order .items() yields them.
RECURSIVE Items(_)
Items(S) ==
    IF S = {} THEN <<>>
    ELSE LET k == CHOOSE x \in S : \A y \in S : x <= y
         IN <<k>> \o Items(S \ {k})

\* for cls, rgb in src.colormap(1).items(): rgb_image[data == cls] = rgb[:4]
RECURSIVE RecolorLoop(_, _, _, _)
RecolorLoop(img, d, cm, keys) ==
    IF keys = <<>> THEN img
    ELSE RecolorLoop(Paint(img, d, Head(keys), cm[Head(keys)]), d, cm, Tail(keys))

Recolor(d, cm) == RecolorLoop(Zeros(d.shape), d, cm, Items(DOMAIN cm))

(* ------------------------------------------------------- resource scopes *)
MainHandle(y) == [owner |-> "main", year |-> y]
ExtentHandle == [owner |-> "get_extent", year |-> BaseYear]

\* Mutant: the dataset is opened without a with block and never closed.
ContextExitLeak(hs, h) == hs

\* __exit__ of the "with rio.open(...) as src" block closes the dataset.
ContextExit(hs, h) == hs \ {h}

\* Mutant: the failing year is skipped and the loop goes on.
RaiseSkip(kind) ==
    /\ pc' = "loop"
    /\ error' = kind
    /\ handles' = ContextExit(ContextExit(handles, ExtentHandle), MainHandle(year))
    /\ status' = status
    /\ UNCHANGED <<start, stop, step, state, county, it, year, images, src,
                   extent, mask, raw, data, rgb_image, gif, baseCrs,
                   frameYears>>

\* An exception leaves get_extent() (if it is active) and main(): both with
\* blocks close their dataset and st.status turns to "error".
Raise(kind) ==
    /\ pc' = "failed"
    /\ error' = kind
    /\ handles' = ContextExit(ContextExit(handles, ExtentHandle), MainHandle(year))
    /\ status' = "error"
    /\ UNCHANGED <<start, stop, step, state, county, it, year, images, src,
                   extent, mask, raw, data, rgb_image, gif, baseCrs,
                   frameYears>>

(* ------------------------------------------------------------------ ui() *)
\* What the sidebar widgets and select boxes let through to main().
UIAllows(a, b, s, st, co) ==
    /\ a \in MinYear..MaxYearUI
    /\ b \in MinYear..MaxYearUI
    /\ s \in 1..MaxStepUI
    /\ \E i \in DOMAIN USA : USA[i].NAME_1 = st /\ USA[i].NAME_2 = co

(* ------------------------------------------------------------------ Init *)
Init ==
    /\ start \in Years
    /\ stop \in Years
    /\ step \in Steps
    /\ state \in States
    /\ county \in Counties
    /\ pc = "call"
    /\ it = 0
    /\ year = 0
    /\ images = <<>>
    /\ status = "idle"
    /\ error = "none"
    /\ handles = {}
    /\ src = NoSrc
    /\ extent = NoExtent
    /\ mask = NoGrid
    /\ raw = NoGrid
    /\ data = NoGrid
    /\ rgb_image = NoGrid
    /\ gif = NoGif
    /\ baseCrs = "unknown"
    /\ clipYears = <<>>
    /\ frameYears = <<>>

(* --------------------------------------------------------------- actions *)
\* images = []; with st.status(...); for year in range(start, stop, step)
Enter ==
    /\ pc = "call"
    /\ IF step = 0
       THEN /\ pc' = "failed"
            /\ error' = "ValueError"
            /\ status' = "error"
            /\ UNCHANGED <<it, images>>
       ELSE /\ pc' = "loop"
            /\ error' = error
            /\ status' = "running"
            /\ it' = start
            /\ images' = <<>>
    /\ UNCHANGED <<start, stop, step, state, county, year, handles, src,
                   extent, mask, raw, data, rgb_image, gif, baseCrs,
                   clipYears, frameYears>>

\* Mutant: the stop year is included.
HasNextInclusive == IF step > 0 THEN it <= stop ELSE it >= stop

HasNext == IF step > 0 THEN it < stop ELSE it > stop

\* Mutant: the iterator advances by one year whatever the step.
LoopNextUnitStep ==
    /\ pc = "loop"
    /\ HasNext
    /\ year' = it
    /\ it' = it + 1
    /\ pc' = "open"
    /\ UNCHANGED <<start, stop, step, state, county, images, status, error,
                   handles, src, extent, mask, raw, data, rgb_image, gif,
                   baseCrs, clipYears, frameYears>>

\* the iterator yields the next year
LoopNext ==
    /\ pc = "loop"
    /\ HasNext
    /\ year' = it
    /\ it' = it + step
    /\ pc' = "open"
    /\ UNCHANGED <<start, stop, step, state, county, images, status, error,
                   handles, src, extent, mask, raw, data, rgb_image, gif,
                   baseCrs, clipYears, frameYears>>

\* the iterator is exhausted: st.write('Preparing GIF')
LoopEnd ==
    /\ pc = "loop"
    /\ ~HasNext
    /\ pc' = "encode"
    /\ UNCHANGED <<start, stop, step, state, county, it, year, images, status,
                   error, handles, src, extent, mask, raw, data, rgb_image,
                   gif, baseCrs, clipYears, frameYears>>

\* with rio.open(URL.format(year=year)) as src
Open ==
    /\ pc = "open"
    /\ \E crs \in CRSs :
          /\ (year = BaseYear /\ baseCrs # "unknown") => crs = baseCrs
          /\ src' = [year |-> year, crs |-> crs, nodata |-> -1, colormap |-> <<>>]
          /\ baseCrs' = IF year = BaseYear THEN crs ELSE baseCrs
    /\ handles' = handles \cup {MainHandle(year)}
    /\ pc' = "get_extent"
    /\ UNCHANGED <<start, stop, step, state, county, it, year, images, status,
                   error, extent, mask, raw, data, rgb_image, gif, clipYears,
                   frameYears>>

OpenFail ==
    /\ pc = "open"
    /\ Raise("RasterioIOError")
    /\ UNCHANGED clipYears

\* get_extent: with rio.open(URL.format(year=1985)) as src
ExtentOpen ==
    /\ pc = "get_extent"
    /\ \E crs \in CRSs :
          /\ baseCrs # "unknown" => crs = baseCrs
          /\ baseCrs' = crs
    /\ handles' = handles \cup {ExtentHandle}
    /\ pc' = "query"
    /\ UNCHANGED <<start, stop, step, state, county, it, year, images, status,
                   error, src, extent, mask, raw, data, rgb_image, gif,
                   clipYears, frameYears>>

ExtentOpenFail ==
    /\ pc = "get_extent"
    /\ Raise("RasterioIOError")
    /\ UNCHANGED clipYears
    /\ UNCHANGED clipYears

\* get_extent: .to_crs(src.profile['crs']) raises (the file declares no CRS)
ExtentFail ==
    /\ pc = "query"
    /\ Raise("ValueError")
    /\ UNCHANGED clipYears

\* get_extent: return USA.query(...).to_crs(...).geometry.squeeze()
ExtentReturn ==
    /\ pc = "query"
    /\ extent' = get_extent(state, county, baseCrs)
    /\ handles' = ContextExit(handles, ExtentHandle)
    /\ pc' = "mask"
    /\ UNCHANGED <<start, stop, step, state, county, it, year, images, status,
                   error, src, mask, raw, data, rgb_image, gif, baseCrs,
                   clipYears, frameYears>>

\* mask, transform, win = raster_geometry_mask(src, [extent], crop=True)
Mask ==
    /\ pc = "mask"
    /\ extent.kind = "scalar"
    /\ \E res \in Resolutions :
         \E m \in [Cells(Window(extent.items[1], res)) -> BOOLEAN] :
            mask' = [shape |-> Window(extent.items[1], res), v |-> m]
    /\ clipYears' = Append(clipYears, year)
    /\ pc' = "read"
    /\ UNCHANGED <<start, stop, step, state, county, it, year, images, status,
                   error, handles, src, extent, raw, data, rgb_image, gif,
                   baseCrs, frameYears>>

\* the shape is no geometry, or it does not overlap the raster
MaskFail ==
    /\ pc = "mask"
    /\ clipYears' = Append(clipYears, year)
    /\ Raise("ValueError")

\* data = src.read(1, window=win)
Read ==
    /\ pc = "read"
    /\ \E d \in [Cells(mask.shape) -> Codes] :
          /\ raw' = [shape |-> mask.shape, v |-> d]
          /\ data' = [shape |-> mask.shape, v |-> d]
    /\ pc' = "nodata"
    /\ UNCHANGED <<start, stop, step, state, county, it, year, images, status,
                   error, handles, src, extent, mask, rgb_image, gif, baseCrs,
                   clipYears, frameYears>>

ReadFail ==
    /\ pc = "read"
    /\ Raise("RasterioIOError")
    /\ UNCHANGED clipYears

\* data[mask] = src.nodata
Clip ==
    /\ pc = "nodata"
    /\ \E nd \in NoDatas :
          /\ src' = [src EXCEPT !.nodata = nd]
          /\ data' = MaskOut(data, mask, nd)
    /\ pc' = "recolor"
    /\ UNCHANGED <<start, stop, step, state, county, it, year, images, status,
                   error, handles, extent, mask, raw, rgb_image, gif, baseCrs,
                   clipYears, frameYears>>

\* src.nodata is None: the assignment into the integer band raises
ClipFail ==
    /\ pc = "nodata"
    /\ Raise("TypeError")
    /\ UNCHANGED clipYears

\* rgb_image = np.zeros(...); for cls, rgb in src.colormap(1).items(): ...
RecolorStep ==
    /\ pc = "recolor"
    /\ \E cm \in Colormaps :
          /\ src' = [src EXCEPT !.colormap = cm]
          /\ rgb_image' = Recolor(data, cm)
    /\ pc' = "append"
    /\ UNCHANGED <<start, stop, step, state, county, it, year, images, status,
                   error, handles, extent, mask, raw, data, gif, baseCrs,
                   clipYears, frameYears>>

\* src.colormap(1) raises when band 1 has no colour table
RecolorFail ==
    /\ pc = "recolor"
    /\ Raise("ValueError")
    /\ UNCHANGED clipYears

\* images.append(rgb_image); the with block ends and closes src
AppendFrame ==
    /\ pc = "append"
    /\ images' = Append(images, rgb_image)
    /\ frameYears' = Append(frameYears, year)
    /\ handles' = ContextExit(handles, MainHandle(year))
    /\ pc' = "loop"
    \* the per-iteration locals are rebound before they are read again
    /\ src' = NoSrc
    /\ extent' = NoExtent
    /\ mask' = NoGrid
    /\ raw' = NoGrid
    /\ data' = NoGrid
    /\ rgb_image' = NoGrid
    /\ UNCHANGED <<start, stop, step, state, county, it, year, status, error,
                   gif, baseCrs, clipYears>>

\* imageio.mimsave('nlcd.gif', images, fps=4, loop=0)
Mimsave ==
    /\ pc = "encode"
    /\ gif' = [written |-> TRUE, frames |-> images, fps |-> FPS, loop |-> LOOP]
    /\ pc' = "update"
    /\ UNCHANGED <<start, stop, step, state, county, it, year, images, status,
                   error, handles, src, extent, mask, raw, data, rgb_image,
                   baseCrs, clipYears, frameYears>>

\* the encoder or the file system refuses the write
MimsaveFail ==
    /\ pc = "encode"
    /\ Raise("EncoderError")
    /\ UNCHANGED clipYears

\* status.update(label=..., state='complete', expanded=False)
StatusUpdate ==
    /\ pc = "update"
    /\ status' = "complete"
    /\ pc' = "done"
    /\ UNCHANGED <<start, stop, step, state, county, it, year, images, error,
                   handles, src, extent, mask, raw, data, rgb_image, gif,
                   baseCrs, clipYears, frameYears>>

Next ==
    \/ Enter
    \/ LoopNext
    \/ LoopEnd
    \/ Open
    \/ OpenFail
    \/ ExtentOpen
    \/ ExtentOpenFail
    \/ ExtentFail
    \/ ExtentReturn
    \/ Mask
    \/ MaskFail
    \/ Read
    \/ ReadFail
    \/ Clip
    \/ ClipFail
    \/ RecolorStep
    \/ RecolorFail
    \/ AppendFrame
    \/ Mimsave
    \/ MimsaveFail
    \/ StatusUpdate

Spec == Init /\ [][Next]_vars

(* ================================================================ claims *)
RECURSIVE Ascending(_)
Ascending(S) ==
    IF S = {} THEN <<>>
    ELSE LET m == CHOOSE x \in S : \A y \in S : y <= x
         IN Append(Ascending(S \ {m}), m)

\* start, start+step, ... strictly below stop
ExpectedYears ==
    Ascending({y \in start..(stop - 1) : (y - start) % step = 0})

InIteration == pc \in {"open", "get_extent", "query", "mask", "read",
                       "nodata", "recolor", "append"}
AfterExtent == pc \in {"mask", "read", "nodata", "recolor", "append"}
AfterMask == pc \in {"read", "nodata", "recolor", "append"}
AtEncoder == pc \in {"encode", "update", "done"}
\* the request satisfies the documented input contract
ValidRequest == start <= stop /\ step >= 1

\* C1: with start <= stop and step >= 1, once the loop has ended without a
\* failure the clipper has been invoked exactly once for each of the years
\* start, start+step, ... < stop, in ascending order, and the sequence handed
\* to the encoder holds exactly one frame per such year in that order.
C1_YearsInOrder ==
    (ValidRequest /\ AtEncoder) =>
        /\ clipYears = ExpectedYears
        /\ frameYears = ExpectedYears
        /\ Len(images) = Len(ExpectedYears)
        /\ gif.written => (gif.frames = images /\ gif.fps = 4 /\ gif.loop = 0)

C1_Witness ==
    /\ pc = "done"
    /\ start = MinYear /\ stop = MinYear + 2 /\ step = 1
    /\ clipYears = <<MinYear, MinYear + 1>>
    /\ Len(gif.frames) = 2

\* C2: once the resolver has run (in a run of a valid request), zero
\* matching records have ended in NotFoundError, two or more in
\* AmbiguousMatchError, and a value has been returned only when exactly one
\* record matches.
C2_ResolverRejects ==
    LET n == Len(Query(state, county)) IN
    ValidRequest =>
        /\ AfterExtent => n = 1
        /\ (pc = "failed" /\ n = 0 /\ clipYears # <<>>)
              => error = "NotFoundError"
        /\ (pc = "failed" /\ n > 1 /\ clipYears # <<>>)
              => error = "AmbiguousMatchError"

\* C3: once any step of a run has failed the run is over: the failure leaves
\* main() at once, nothing is processed, retried, encoded or closed later,
\* and the status never becomes "complete".
C3_FailureAborts ==
    [][ (error' # "none") =>
          /\ pc' = "failed"
          /\ status' = "error"
          /\ ~gif'.written
          /\ (error # "none" => UNCHANGED vars) ]_vars

C3_Witness ==
    /\ pc = "failed"
    /\ error = "RasterioIOError"
    /\ Len(images) = 1
    /\ year = MinYear + 1
    /\ status = "error"
    /\ ~gif.written

\* C4: no raster handle outlives the scope that opened it: outside an
\* iteration (before it, between iterations, after the loop, after a failure)
\* nothing is open, the handle of get_extent is closed once it has returned,
\* and inside an iteration only that iteration's handles are open.
C4_HandlesScoped ==
    /\ ~InIteration => handles = {}
    /\ AfterExtent => handles = {MainHandle(year)}
    /\ handles \subseteq {MainHandle(year), ExtentHandle}

C4_Witness ==
    /\ pc = "failed"
    /\ error = "TypeError"
    /\ Len(images) = 1
    /\ handles = {}

\* C5: in the clipped raster every cell the mask flags as outside holds the
\* source's no-data sentinel and every other cell holds the class code read
\* from the source for that cell.
C5_ClipMasksOutside ==
    pc \in {"recolor", "append"} =>
        /\ data.shape = mask.shape
        /\ \A c \in Cells(mask.shape) :
              /\ mask.v[c] => data.v[c] = src.nodata
              /\ ~mask.v[c] => data.v[c] = raw.v[c]

C5_Witness ==
    /\ pc = "recolor"
    /\ \E c \in Cells(mask.shape) : mask.v[c] /\ raw.v[c] # src.nodata
    /\ \E c \in Cells(mask.shape) : ~mask.v[c] /\ raw.v[c] # src.nodata

\* C6: the recolored frame has the height and width of the class grid, and
\* each pixel is (0,0,0,0) when its class code has no colormap entry and the
\* first four channels of the entry otherwise.
C6_RecolorLookup ==
    pc = "append" =>
        /\ rgb_image.shape = data.shape
        /\ DOMAIN rgb_image.v = Cells(data.shape)
        /\ \A c \in Cells(data.shape) :
              IF data.v[c] \in DOMAIN src.colormap
              THEN /\ Len(rgb_image.v[c]) = 4
                   /\ \A i \in 1..4 :
                         rgb_image.v[c][i] = src.colormap[data.v[c]][i]
              ELSE rgb_image.v[c] = <<0, 0, 0, 0>>

C6_Witness ==
    /\ pc = "append"
    /\ \E c \in Cells(data.shape) : data.v[c] \notin DOMAIN src.colormap
    /\ \E c \in Cells(data.shape) :
          /\ data.v[c] \in DOMAIN src.colormap
          /\ rgb_image.v[c] # <<0, 0, 0, 0>>

C8_InvalidRejected ==
    (start > stop \/ step < 1) =>
        \/ pc = "call"
        \/ pc = "failed" /\ year = 0 /\ clipYears = <<>> /\ ~gif.written

\* C9: all frames handed to the encoder (in a run of a valid request) share
\* one (height, width); frames of differing shapes end in
\* DimensionMismatchError, not in an output.
C9_SameDimensions ==
    ValidRequest =>
        /\ AtEncoder =>
              \A i, j \in DOMAIN images : images[i].shape = images[j].shape
        /\ (pc = "failed" /\ \E i, j \in DOMAIN images :
                                images[i].shape # images[j].shape)
              => error = "DimensionMismatchError"

\* C10: in every iteration of a run of a valid request, the boundary handed
\* to the clipper for year y is expressed in the CRS of the raster opened for
\* year y.
C10_BoundaryInSourceCrs ==
    (ValidRequest /\ AfterMask) => extent.items[1].crs = src.crs

====
